---- MODULE Spec2Model ----
(***************************************************************************)
(* A model of flowjax's bijection core: the rank-based masks and the       *)
(* masked autoregressive network (bijections/masked_autoregressive.py),    *)
(* the composition primitives Chain, Permute and Flip                      *)
(* (bijections/utils.py) and the wrappers Vmap and Scan                    *)
(* (bijections/jax_transforms.py).                                         *)
(*                                                                         *)
(* Floating point values are modelled by integers.  An n-dimensional array *)
(* is a record [shape, data]: its shape and its row-major flat buffer.     *)
(* A call that may raise returns a record [raised, value].                 *)
(***************************************************************************)
EXTENDS Integers, Sequences, FiniteSets, TLC

\* ------------------------------------------------------------------ bounds

\* Longest rank vector given to rank_based_mask.
MaxLen == 2
\* Largest rank given to rank_based_mask (the smallest is -1, the rank of a
\* conditioning input).
MaxRank == 1
\* Width of the input and hidden layers of the networks whose masks are checked.
MlpWidth == 2
\* Number of output units of those networks.
MlpOut == 1
\* Largest number of hidden layers (depth) of those networks.
MaxDepth == 2
\* Dimension of the vectors the MaskedAutoregressive bijection transforms.
Dim == 3
\* Number of PRNG keys the network weights are drawn with.
NumKeys == 2
\* Longest array given to the constructor of Permute.
PermLen == 3
\* Longest list of bijections given to Chain.
MaxChain == 2
\* Number of coordinates of the elementary bijection that Scan and Vmap wrap.
AffDim == 1
\* Longest leading axis of the parameters of the bijection that Scan wraps.
MaxScan == 2
\* Longest axis that Vmap adds.
MaxBatch == 2

\* ------------------------------------------------------------------ arrays

RECURSIVE SeqSum(_)
SeqSum(s) == IF s = <<>> THEN 0 ELSE Head(s) + SeqSum(Tail(s))

\* All sequences over S of length 0..n.
SeqsUpTo(S, n) == UNION {[1..k -> S] : k \in 0..n}

\* The sequence s, with its entries computed once (for TLC, which otherwise
\* computes an entry of [i \in 1..n |-> e] again at every use).
Strict(s) == s \o <<>>

\* A 1-D array holding the sequence s.
Vec(s) == [shape |-> <<Len(s)>>, data |-> s]

\* A 0-D array holding the scalar v.
Scalar(v) == [shape |-> <<>>, data |-> <<v>>]

\* A 2-D array of r rows and c columns with row-major buffer d.
Mat(r, c, d) == [shape |-> <<r, c>>, data |-> d]

Ndim(a) == Len(a.shape)

\* Entry (i, j) of a 2-D array, 1-based.
At(a, i, j) == a.data[(i - 1) * a.shape[2] + j]

Ok(v) == [raised |-> "none", value |-> v]

Raise(e) == [raised |-> e, value |-> <<>>]

NoResult == [raised |-> "not_called", value |-> <<>>]

\* ------------------------------------------------------- rank_based_mask

\* out_ranks[:, None]: the 1-D array a as one column.
Column(a) == Mat(a.shape[1], 1, a.data)

\* col >= row (eq) or col > row, broadcast: col has shape (M, 1) and row
\* shape (N,), the result has shape (M, N).
BroadcastCompare(col, row, eq) ==
    LET M == col.shape[1]
        N == row.shape[1]
    IN  Mat(M, N, [k \in 1..(M * N) |->
            LET i == ((k - 1) \div N) + 1
                j == ((k - 1) % N) + 1
            IN  IF eq THEN At(col, i, 1) >= row.data[j]
                      ELSE At(col, i, 1) > row.data[j]])

\* mask.astype(jnp.int32)
AsTypeInt32(a) == [a EXCEPT !.data = [k \in DOMAIN a.data |-> IF a.data[k] THEN 1 ELSE 0]]

\* A mask built with the comparison the wrong way round.
rank_based_mask_swapped(in_ranks, out_ranks, eq) ==
    IF ~(Ndim(in_ranks) = 1 /\ Ndim(out_ranks) = 1)
    THEN Raise("AssertionError")
    ELSE Ok(AsTypeInt32(BroadcastCompare(Column(out_ranks), in_ranks, ~eq)))

rank_based_mask(in_ranks, out_ranks, eq) ==
    IF ~(Ndim(in_ranks) = 1 /\ Ndim(out_ranks) = 1)
    THEN Raise("AssertionError")
    ELSE Ok(AsTypeInt32(BroadcastCompare(Column(out_ranks), in_ranks, eq)))

\* ----------------------------------------------------- AutoregressiveMLP

\* The mask of the only layer of a network without hidden layers.
DirectMask(in_ranks, out_ranks) == rank_based_mask(in_ranks, out_ranks, FALSE)

\* The mask of the first layer of a network with hidden layers.
InputMask(in_ranks, hidden_ranks) == rank_based_mask(in_ranks, hidden_ranks, TRUE)

\* The mask between two hidden layers.
HiddenMask(hidden_ranks) == rank_based_mask(hidden_ranks, hidden_ranks, TRUE)

\* A last layer that also lets equal ranks through.
FinalMask_inclusive(hidden_ranks, out_ranks) == rank_based_mask(hidden_ranks, out_ranks, TRUE)

\* The mask of the last layer of a network with hidden layers.
FinalMask(hidden_ranks, out_ranks) == rank_based_mask(hidden_ranks, out_ranks, FALSE)

\* Whether the masks ms leave a connected path from input unit j to unit u of
\* layer l (the units ms[l] computes).
RECURSIVE PathTo(_, _, _, _)
PathTo(ms, l, u, j) ==
    IF l = 1
    THEN At(ms[1], u, j) = 1
    ELSE \E v \in 1..ms[l].shape[2] :
            /\ At(ms[l], u, v) = 1
            /\ PathTo(ms, l - 1, v, j)

\* The list masks that AutoregressiveMLP.__init__ builds.
MlpMasks(in_r, hidden_r, out_r, d) ==
    IF d = 0
    THEN <<DirectMask(in_r, out_r).value>>
    ELSE <<InputMask(in_r, hidden_r).value>>
             \o [k \in 1..(d - 1) |-> HiddenMask(hidden_r).value]
             \o <<FinalMask(hidden_r, out_r).value>>

\* Entry (i, j) of the weight matrix that Linear draws for layer l from the
\* PRNG key: a fixed dense pattern of small integers for each key.
Weight(key, l, i, j) == ((7 * key + 3 * l + 5 * i + 11 * j) % 5) - 2

\* Entry i of the bias that Linear draws for layer l from the PRNG key.
Bias(key, l, i) == ((3 * key + l + 2 * i) % 3) - 1

\* A layer that multiplies by the weights without the mask.
MaskedLinearCall_unmasked(key, l, mask, v) ==
    Strict([i \in 1..mask.shape[1] |->
        SeqSum([j \in 1..mask.shape[2] |-> Weight(key, l, i, j) * v[j]])
            + Bias(key, l, i)])

\* MaskedLinear.__call__: (weight * mask) @ x + bias.
MaskedLinearCall(key, l, mask, v) ==
    Strict([i \in 1..mask.shape[1] |->
        SeqSum([j \in 1..mask.shape[2] |->
                    Weight(key, l, i, j) * At(mask, i, j) * v[j]])
            + Bias(key, l, i)])

\* jnn.relu, elementwise.
Relu(v) == Strict([i \in DOMAIN v |-> IF v[i] > 0 THEN v[i] ELSE 0])

\* The output of layer l of the network on input v: the activation follows
\* every layer but the last, the final activation (the identity) the last.
RECURSIVE MlpLayer(_, _, _, _)
MlpLayer(key, ms, l, v) ==
    LET inp == IF l = 1 THEN v ELSE Relu(MlpLayer(key, ms, l - 1, v))
    IN  MaskedLinearCall(key, l, ms[l], inp)

\* AutoregressiveMLP.__call__
MlpCall(key, ms, v) == MlpLayer(key, ms, Len(ms), v)

\* ------------------------------------------- the elementary bijection

\* jnp.arange(n)
Arange(n) == [k \in 1..n |-> k - 1]

\* tile_until_length: x repeated until the length is n.
TileUntilLength(x, n) == [k \in 1..n |-> x[((k - 1) % Len(x)) + 1]]

\* The elementwise affine bijection parameterised by the network: the ranks of
\* its parameters, a location and a log scale for each dimension.
ElemGetRanks(d) == Arange(d) \o Arange(d)

\* get_args: the flat parameters split into locations and log scales.
ElemGetArgs(params) ==
    LET d == Len(params) \div 2
    IN  [loc |-> SubSeq(params, 1, d), log_scale |-> SubSeq(params, d + 1, 2 * d)]

\* The positive scale of a log scale: 1 or 2.
ElemScale(ls) == 2 ^ (ls % 2)

ElemTransform(v, args) ==
    Strict([i \in DOMAIN v |-> v[i] * ElemScale(args.log_scale[i]) + args.loc[i]])

\* The log of the absolute determinant of the Jacobian of ElemTransform, in
\* base 2: the sum of the logs of the scales.
ElemLogDet(args) == SeqSum([i \in DOMAIN args.log_scale |-> args.log_scale[i] % 2])

ElemInverse(v, args) ==
    Strict([i \in DOMAIN v |->
                (v[i] - args.loc[i]) \div ElemScale(args.log_scale[i])])

\* ---------------------------------------------------- MaskedAutoregressive

\* A condition: None, or a vector.
None == [none |-> TRUE, val |-> <<>>]

Some(c) == [none |-> FALSE, val |-> c]

\* in_ranks: the inputs in order, the conditioning variables with rank -1.
MafInRanks(d, cond_dim) == Arange(d) \o [k \in 1..cond_dim |-> -1]

\* MaskedAutoregressive.__init__
MafNew(key, d, cond_dim, nn_width, nn_depth) ==
    [kind |-> "MaskedAutoregressive",
     cond_dim |-> cond_dim,
     key |-> key,
     masks |-> MlpMasks(Vec(MafInRanks(d, cond_dim)),
                        Vec(TileUntilLength(Arange(d), nn_width)),
                        Vec(ElemGetRanks(d)),
                        nn_depth)]

\* nn_input = x if condition is None else jnp.concatenate((x, condition))
NnInput(v, cond) == IF cond.none THEN v ELSE v \o cond.val

\* MaskedAutoregressive.transform
MafTransform(m, v, cond) ==
    LET bijection_params == MlpCall(m.key, m.masks, NnInput(v, cond))
    IN  ElemTransform(v, ElemGetArgs(bijection_params))

\* MaskedAutoregressive.transform_and_log_abs_det_jacobian
MafTransformAndLogDet(m, v, cond) ==
    LET bijection_params == MlpCall(m.key, m.masks, NnInput(v, cond))
        bijection_args == ElemGetArgs(bijection_params)
    IN  [y |-> ElemTransform(v, bijection_args), ld |-> ElemLogDet(bijection_args)]

\* A step that commits every coordinate of the elementary inverse at once.
inverse_step_all(m, v, r, cond) ==
    LET bijection_params == MlpCall(m.key, m.masks, NnInput(v, cond))
    IN  ElemInverse(v, ElemGetArgs(bijection_params))

\* A step that commits the coordinates in the reverse of the rank order.
inverse_step_reversed(m, v, r, cond) ==
    LET bijection_params == MlpCall(m.key, m.masks, NnInput(v, cond))
        xi == ElemInverse(v, ElemGetArgs(bijection_params))
    IN  [v EXCEPT ![Len(v) - r] = xi[Len(v) - r]]

\* MaskedAutoregressive.inverse_step: y.at[rank].set(xi[rank]), rank from 0.
inverse_step(m, v, r, cond) ==
    LET bijection_params == MlpCall(m.key, m.masks, NnInput(v, cond))
        xi == ElemInverse(v, ElemGetArgs(bijection_params))
    IN  [v EXCEPT ![r + 1] = xi[r + 1]]

\* The scan of MaskedAutoregressive.inverse from the carry (g, r): len(y) = n
\* iterations in all.
RECURSIVE MafInverseScan(_, _, _, _, _)
MafInverseScan(m, g, r, n, cond) ==
    IF r >= n THEN g
    ELSE MafInverseScan(m, inverse_step(m, g, r, cond), r + 1, n, cond)

\* MaskedAutoregressive.inverse
MafInverse(m, v, cond) == MafInverseScan(m, v, 0, Len(v), cond)

\* ----------------------------------------------------------------- Permute

\* The number of entries of p that a stable sort puts before entry i.
SortRank(p, i) ==
    Cardinality({j \in DOMAIN p : p[j] < p[i] \/ (p[j] = p[i] /\ j < i)})

\* jnp.argsort(p): the 0-based indices that sort p.
Argsort(p) ==
    Strict([k \in DOMAIN p |-> (CHOOSE i \in DOMAIN p : SortRank(p, i) = k - 1) - 1])

\* p.sort()
Sort(p) == Strict([k \in DOMAIN p |-> p[Argsort(p)[k] + 1]])

\* v[idx] for an integer array idx, as jax indexes: a negative index counts
\* from the end, and an index out of bounds is clamped.
NormIndex(i, n) ==
    LET w == IF i < 0 THEN i + n ELSE i
    IN  IF w < 0 THEN 0 ELSE IF w > n - 1 THEN n - 1 ELSE w

Gather(v, idx) == Strict([k \in DOMAIN idx |-> v[NormIndex(idx[k], Len(v)) + 1]])

\* A constructor that does not validate its argument.
PermuteNew_unchecked(permutation) ==
    Ok([kind |-> "Permute",
        permutation |-> permutation,
        inverse_permutation |-> Argsort(permutation),
        cond_dim |-> 0])

\* Permute.__init__
PermuteNew(permutation) ==
    IF ~(\A k \in DOMAIN permutation :
            Sort(permutation)[k] = Arange(Len(permutation))[k])
    THEN Raise("ValueError")
    ELSE Ok([kind |-> "Permute",
             permutation |-> permutation,
             inverse_permutation |-> Argsort(permutation),
             cond_dim |-> 0])

\* Permute.transform
PermuteTransform(b, v) == Gather(v, b.permutation)

\* Permute.inverse
PermuteInverse(b, v) == Gather(v, b.inverse_permutation)

\* -------------------------------------------------------------------- Flip

FlipNew == [kind |-> "Flip", cond_dim |-> 0]

\* jnp.flip(v)
FlipTransform(v) == Strict([k \in DOMAIN v |-> v[Len(v) - k + 1]])

\* ------------------------------------------------------------------- Affine

\* An elementary bijection with a location and a log scale (base 2, 0 or 1) for
\* each coordinate; a conditional one adds the condition to every location.
AffineNew(loc, log_scale, conditional) ==
    [kind |-> "Affine",
     shape |-> <<Len(loc)>>,
     cond_shape |-> IF conditional THEN Some(<<1>>) ELSE None,
     cond_dim |-> IF conditional THEN 1 ELSE 0,
     loc |-> loc,
     log_scale |-> log_scale]

\* eqx.filter_vmap(Affine)(locs, log_scales): the arrays stacked along leading
\* axes, the rest as for one bijection over d coordinates.
StackedAffine(locs, log_scales, conditional, d) ==
    [kind |-> "Affine",
     shape |-> <<d>>,
     cond_shape |-> IF conditional THEN Some(<<1>>) ELSE None,
     cond_dim |-> IF conditional THEN 1 ELSE 0,
     loc |-> locs,
     log_scale |-> log_scales]

AffineShift(b, cond) == IF b.cond_dim = 0 \/ cond.none THEN 0 ELSE cond.val[1]

AffineTransform(b, v, cond) ==
    Strict([i \in DOMAIN v |-> v[i] * (2 ^ b.log_scale[i]) + b.loc[i] + AffineShift(b, cond)])

AffineInverse(b, v, cond) ==
    Strict([i \in DOMAIN v |->
                (v[i] - b.loc[i] - AffineShift(b, cond)) \div (2 ^ b.log_scale[i])])

AffineLogDet(b) == SeqSum(b.log_scale)

\* ------------------------------------------------- calls on a child bijection

\* The methods each class defines.
Methods(kind) ==
    CASE kind \in {"Chain", "Permute", "Flip", "MaskedAutoregressive"} ->
            {"transform", "transform_and_log_abs_det_jacobian", "inverse"}
      [] kind \in {"Vmap", "Scan", "Affine"} ->
            {"transform", "transform_and_log_abs_det_jacobian", "inverse",
             "inverse_and_log_abs_det_jacobian"}

\* bijection.transform(v, cond)
BijTransform(b, v, cond) ==
    CASE b.kind = "Permute" -> PermuteTransform(b, v)
      [] b.kind = "Flip" -> FlipTransform(v)
      [] b.kind = "MaskedAutoregressive" -> MafTransform(b, v, cond)
      [] b.kind = "Affine" -> AffineTransform(b, v, cond)

\* bijection.transform_and_log_abs_det_jacobian(v, cond)
BijTransformAndLogDet(b, v, cond) ==
    CASE b.kind = "Permute" -> [y |-> PermuteTransform(b, v), ld |-> 0]
      [] b.kind = "Flip" -> [y |-> FlipTransform(v), ld |-> 0]
      [] b.kind = "MaskedAutoregressive" -> MafTransformAndLogDet(b, v, cond)
      [] b.kind = "Affine" -> [y |-> AffineTransform(b, v, cond), ld |-> AffineLogDet(b)]

\* bijection.inverse(v, cond)
BijInverse(b, v, cond) ==
    CASE b.kind = "Permute" -> PermuteInverse(b, v)
      [] b.kind = "Flip" -> FlipTransform(v)
      [] b.kind = "MaskedAutoregressive" -> MafInverse(b, v, cond)
      [] b.kind = "Affine" -> AffineInverse(b, v, cond)

\* ------------------------------------------------------------------- Chain

RECURSIVE SeqMax(_)
SeqMax(s) ==
    IF Len(s) = 1 THEN s[1]
    ELSE LET m == SeqMax(Tail(s)) IN IF s[1] > m THEN s[1] ELSE m

\* reversed(s)
Reversed(s) == [k \in DOMAIN s |-> s[Len(s) - k + 1]]

\* Chain.__init__
ChainNew(bijections) ==
    [kind |-> "Chain",
     bijections |-> bijections,
     cond_dim |-> SeqMax([k \in DOMAIN bijections |-> bijections[k].cond_dim])]

\* for bijection in bs[k:]: v = bijection.transform(v, cond)
RECURSIVE TransformEach(_, _, _, _)
TransformEach(bs, k, v, cond) ==
    IF k > Len(bs) THEN v
    ELSE TransformEach(bs, k + 1, BijTransform(bs[k], v, cond), cond)

\* for bijection in bs[k:]: v = bijection.inverse(v, cond)
RECURSIVE InverseEach(_, _, _, _)
InverseEach(bs, k, v, cond) ==
    IF k > Len(bs) THEN v
    ELSE InverseEach(bs, k + 1, BijInverse(bs[k], v, cond), cond)

\* for bijection in bs[k:]: the transform, and its log-det added to the sum.
RECURSIVE TransformAndLogDetEach(_, _, _, _)
TransformAndLogDetEach(bs, k, carry, cond) ==
    IF k > Len(bs) THEN carry
    ELSE LET r == BijTransformAndLogDet(bs[k], carry.y, cond)
         IN  TransformAndLogDetEach(bs, k + 1, [y |-> r.y, ld |-> carry.ld + r.ld], cond)

\* Chain.transform
ChainTransform(ch, v, cond) == TransformEach(ch.bijections, 1, v, cond)

\* Chain.transform_and_log_abs_det_jacobian
ChainTransformAndLogDet(ch, v, cond) ==
    TransformAndLogDetEach(ch.bijections, 1, [y |-> v, ld |-> 0], cond)

\* An inverse that goes through the bijections in list order.
ChainInverse_in_order(ch, v, cond) == InverseEach(ch.bijections, 1, v, cond)

\* Chain.inverse
ChainInverse(ch, v, cond) == InverseEach(Reversed(ch.bijections), 1, v, cond)

\* ---------------------------------------------------------------- _argcheck

\* Bijection._argcheck: the input has the shape of the bijection, and a
\* condition is given when the bijection has a cond_shape.
Argcheck(shape, cond_shape, xshape, cond) ==
    IF xshape # shape THEN "ValueError"
    ELSE IF ~cond_shape.none /\ cond.none THEN "ValueError"
    ELSE IF ~cond_shape.none /\ <<Len(cond.val)>> # cond_shape.val THEN "ValueError"
    ELSE "none"

\* -------------------------------------------------------------------- Scan

\* eqx.partition(bijection, eqx.is_array): the array leaves, and the rest.
Partition(b) ==
    [params |-> [loc |-> b.loc, log_scale |-> b.log_scale],
     static |-> [kind |-> b.kind, shape |-> b.shape, cond_shape |-> b.cond_shape,
                 cond_dim |-> b.cond_dim]]

\* Entry t of the leading axis of every array of params.
ParamSlice(params, t) == [loc |-> params.loc[t], log_scale |-> params.log_scale[t]]

\* eqx.combine(static, p)
Combine(static, p) == static @@ p

\* Scan.__init__
ScanNew(b) ==
    [kind |-> "Scan",
     params |-> Partition(b).params,
     static |-> Partition(b).static,
     shape |-> b.shape,
     cond_shape |-> b.cond_shape]

\* The length of the leading axis that jax.lax.scan goes through.
ScanLength(sc) == Len(sc.params.loc)

\* The order in which jax.lax.scan takes the entries of the leading axis.
LaxScanOrder(n, reverse) == [k \in 1..n |-> IF reverse THEN n - k + 1 ELSE k]

\* scan(fn, v, params) with the fn of Scan.transform, from step k of the order.
RECURSIVE ScanTransformLoop(_, _, _, _, _)
ScanTransformLoop(sc, order, k, v, cond) ==
    IF k > Len(order) THEN v
    ELSE LET bijection == Combine(sc.static, ParamSlice(sc.params, order[k]))
         IN  ScanTransformLoop(sc, order, k + 1, BijTransform(bijection, v, cond), cond)

\* scan(fn, (v, 0), params) with the fn of Scan.transform_and_log_abs_det_jacobian.
RECURSIVE ScanTransformLogDetLoop(_, _, _, _, _)
ScanTransformLogDetLoop(sc, order, k, carry, cond) ==
    IF k > Len(order) THEN carry
    ELSE LET bijection == Combine(sc.static, ParamSlice(sc.params, order[k]))
             r == BijTransformAndLogDet(bijection, carry.y, cond)
         IN  ScanTransformLogDetLoop(sc, order, k + 1,
                                     [y |-> r.y, ld |-> carry.ld + r.ld], cond)

\* scan(fn, v, params, reverse=True) with the fn of Scan.inverse.
RECURSIVE ScanInverseLoop(_, _, _, _, _)
ScanInverseLoop(sc, order, k, v, cond) ==
    IF k > Len(order) THEN v
    ELSE LET bijection == Combine(sc.static, ParamSlice(sc.params, order[k]))
         IN  ScanInverseLoop(sc, order, k + 1, BijInverse(bijection, v, cond), cond)

\* bijection.inverse_and_log_abs_det_jacobian(v, cond) of the elementary bijection.
BijInverseAndLogDet(b, v, cond) ==
    CASE b.kind = "Affine" -> [y |-> AffineInverse(b, v, cond), ld |-> 0 - AffineLogDet(b)]

\* scan(fn, (v, 0), params, reverse=True) with the fn of
\* Scan.inverse_and_log_abs_det_jacobian.
RECURSIVE ScanInverseLogDetLoop(_, _, _, _, _)
ScanInverseLogDetLoop(sc, order, k, carry, cond) ==
    IF k > Len(order) THEN carry
    ELSE LET bijection == Combine(sc.static, ParamSlice(sc.params, order[k]))
             r == BijInverseAndLogDet(bijection, carry.y, cond)
         IN  ScanInverseLogDetLoop(sc, order, k + 1,
                                   [y |-> r.y, ld |-> carry.ld + r.ld], cond)

\* Scan.transform
ScanTransform(sc, v, cond) ==
    IF Argcheck(sc.shape, sc.cond_shape, <<Len(v)>>, cond) # "none"
    THEN Raise(Argcheck(sc.shape, sc.cond_shape, <<Len(v)>>, cond))
    ELSE Ok(ScanTransformLoop(sc, LaxScanOrder(ScanLength(sc), FALSE), 1, v, cond))

\* Scan.transform_and_log_abs_det_jacobian
ScanTransformAndLogDet(sc, v, cond) ==
    IF Argcheck(sc.shape, sc.cond_shape, <<Len(v)>>, cond) # "none"
    THEN Raise(Argcheck(sc.shape, sc.cond_shape, <<Len(v)>>, cond))
    ELSE Ok(ScanTransformLogDetLoop(sc, LaxScanOrder(ScanLength(sc), FALSE), 1,
                                    [y |-> v, ld |-> 0], cond))

\* An inverse that scans without reverse=True.
ScanInverse_forward(sc, v, cond) ==
    IF Argcheck(sc.shape, sc.cond_shape, <<Len(v)>>, cond) # "none"
    THEN Raise(Argcheck(sc.shape, sc.cond_shape, <<Len(v)>>, cond))
    ELSE Ok(ScanInverseLoop(sc, LaxScanOrder(ScanLength(sc), FALSE), 1, v, cond))

\* Scan.inverse
ScanInverse(sc, v, cond) ==
    IF Argcheck(sc.shape, sc.cond_shape, <<Len(v)>>, cond) # "none"
    THEN Raise(Argcheck(sc.shape, sc.cond_shape, <<Len(v)>>, cond))
    ELSE Ok(ScanInverseLoop(sc, LaxScanOrder(ScanLength(sc), TRUE), 1, v, cond))

\* Scan.inverse_and_log_abs_det_jacobian
ScanInverseAndLogDet(sc, v, cond) ==
    IF Argcheck(sc.shape, sc.cond_shape, <<Len(v)>>, cond) # "none"
    THEN Raise(Argcheck(sc.shape, sc.cond_shape, <<Len(v)>>, cond))
    ELSE Ok(ScanInverseLogDetLoop(sc, LaxScanOrder(ScanLength(sc), TRUE), 1,
                                  [y |-> v, ld |-> 0], cond))

\* -------------------------------------------------------------------- Vmap

\* The shape of the array v of nd dimensions, held as nested sequences.
RECURSIVE NestedShape(_, _)
NestedShape(v, nd) ==
    IF nd = 0 THEN <<>> ELSE <<Len(v)>> \o NestedShape(v[1], nd - 1)

\* Vmap.__init__, with no keyword arguments: the bijection's parameters and
\* the input are both mapped over.
VmapNew(b, shape) ==
    [kind |-> "Vmap",
     bijection |-> b,
     ndim_to_add |-> Len(shape),
     shape |-> shape \o b.shape,
     cond_shape |-> b.cond_shape]

\* The call op of the wrapped bijection on one slice.
SliceCall(op, b, v, cond) ==
    CASE op = "transform" -> BijTransform(b, v, cond)
      [] op = "inverse" -> BijInverse(b, v, cond)
      [] op = "transform_and_log_abs_det_jacobian" -> BijTransformAndLogDet(b, v, cond)
      [] op = "inverse_and_log_abs_det_jacobian" -> BijInverseAndLogDet(b, v, cond)

\* Vmap._multivmap: nd nested eqx.filter_vmap, each over the leading axis of
\* the parameters and of the input.
RECURSIVE MultiVmap(_, _, _, _, _, _)
MultiVmap(nd, op, static, params, v, cond) ==
    IF nd = 0 THEN SliceCall(op, Combine(static, params), v, cond)
    ELSE [i \in 1..Len(v) |->
            MultiVmap(nd - 1, op, static, ParamSlice(params, i), v[i], cond)]

\* The arrays a vmapped log-det variant returns: the y of every slice, and the
\* log-det of every slice.
RECURSIVE NestedY(_, _)
NestedY(nd, r) == IF nd = 0 THEN r.y ELSE [i \in 1..Len(r) |-> NestedY(nd - 1, r[i])]

RECURSIVE NestedLd(_, _)
NestedLd(nd, r) == IF nd = 0 THEN r.ld ELSE [i \in 1..Len(r) |-> NestedLd(nd - 1, r[i])]

\* log_det.mean()
RECURSIVE ArrayCount(_, _)
ArrayCount(nd, a) ==
    IF nd = 0 THEN 1 ELSE SeqSum([i \in 1..Len(a) |-> ArrayCount(nd - 1, a[i])])

\* log_det.sum()
RECURSIVE ArraySum(_, _)
ArraySum(nd, a) ==
    IF nd = 0 THEN a ELSE SeqSum([i \in 1..Len(a) |-> ArraySum(nd - 1, a[i])])

\* A reduction that averages the log-dets of the slices.
LogDetReduce_mean(nd, a) == ArraySum(nd, a) \div ArrayCount(nd, a)

\* The reduction of the log-dets of the slices: log_det.sum().
LogDetReduce(nd, a) == ArraySum(nd, a)

VmapArgcheck(vm, v, cond) ==
    Argcheck(vm.shape, vm.cond_shape, NestedShape(v, Len(vm.shape)), cond)

\* Vmap.transform and Vmap.inverse
VmapCall(vm, op, v, cond) ==
    IF VmapArgcheck(vm, v, cond) # "none"
    THEN Raise(VmapArgcheck(vm, v, cond))
    ELSE Ok(MultiVmap(vm.ndim_to_add, op, Partition(vm.bijection).static,
                      Partition(vm.bijection).params, v, cond))

\* Vmap.transform_and_log_abs_det_jacobian and
\* Vmap.inverse_and_log_abs_det_jacobian
VmapCallLogDet(vm, op, v, cond) ==
    IF VmapArgcheck(vm, v, cond) # "none"
    THEN Raise(VmapArgcheck(vm, v, cond))
    ELSE LET r == MultiVmap(vm.ndim_to_add, op, Partition(vm.bijection).static,
                            Partition(vm.bijection).params, v, cond)
         IN  Ok([y |-> NestedY(vm.ndim_to_add, r),
                 ld |-> LogDetReduce(vm.ndim_to_add, NestedLd(vm.ndim_to_add, r))])

\* ---------------------------------------------------------------- state

VARIABLES
    m_in,      \* rank_based_mask: the in_ranks argument
    m_out,     \* rank_based_mask: the out_ranks argument
    m_eq,      \* rank_based_mask: the eq argument
    m_res,     \* rank_based_mask: what the call returned or raised
    in_ranks,      \* AutoregressiveMLP.__init__: the in_ranks argument
    hidden_ranks,  \* AutoregressiveMLP.__init__: the hidden_ranks argument
    out_ranks,     \* AutoregressiveMLP.__init__: the out_ranks argument
    depth,         \* AutoregressiveMLP.__init__: the depth argument
    masks,         \* AutoregressiveMLP.__init__: the list masks
    mlp_pc,        \* AutoregressiveMLP.__init__: "start", "hidden", "done"
    maf,           \* the MaskedAutoregressive bijection
    x,             \* the input of transform
    condition,     \* the condition of transform and inverse
    y,             \* what transform returned
    guess,         \* inverse: the carry's vector
    rank,          \* inverse: the carry's counter
    x_back,        \* what inverse returned
    pert,          \* the perturbed coordinate (0: none) of the second input
    x2,            \* a second input: x with one coordinate perturbed
    y2,            \* what transform returned for the second input
    maf_pc,        \* "start", "transformed", "inverse", "inverted", "perturbed"
    p_arg,         \* Permute: the array given to the constructor
    p_obj,         \* Permute: what the constructor returned or raised
    p_x,           \* Permute: the input of transform
    p_y,           \* Permute: what transform returned or raised
    p_back,        \* Permute: what inverse returned or raised for transform's result
    chain,         \* the Chain
    c_x,           \* Chain: the input
    c_cond,        \* Chain: the condition
    c_y,           \* Chain: what transform returned
    c_yld,         \* Chain: what transform_and_log_abs_det_jacobian returned
    c_back,        \* Chain: what inverse returned for transform's result
    c_backld,      \* Chain: what inverse_and_log_abs_det_jacobian returned or raised
    scan,          \* the Scan
    s_x,           \* Scan: the input
    s_cond,        \* Scan: the condition
    s_y,           \* Scan: what transform returned or raised
    s_yld,         \* Scan: what transform_and_log_abs_det_jacobian returned or raised
    s_v,           \* Scan: the input of inverse
    s_back,        \* Scan: what inverse returned or raised
    s_backld,      \* Scan: what inverse_and_log_abs_det_jacobian returned or raised
    vmap,          \* the Vmap
    v_x,           \* Vmap: the input
    v_cond,        \* Vmap: the condition
    v_y,           \* Vmap: what transform returned or raised
    v_yld,         \* Vmap: what transform_and_log_abs_det_jacobian returned or raised
    v_back,        \* Vmap: what inverse returned or raised for transform's result
    v_backld       \* Vmap: what inverse_and_log_abs_det_jacobian returned or raised for it

maskVars == <<m_in, m_out, m_eq, m_res>>

mlpVars == <<in_ranks, hidden_ranks, out_ranks, depth, masks, mlp_pc>>

mafVars == <<maf, x, condition, y, guess, rank, x_back, pert, x2, y2, maf_pc>>

permVars == <<p_arg, p_obj, p_x, p_y, p_back>>

chainVars == <<chain, c_x, c_cond, c_y, c_yld, c_back, c_backld>>

scanVars == <<scan, s_x, s_cond, s_y, s_yld, s_v, s_back, s_backld>>

vmapVars == <<vmap, v_x, v_cond, v_y, v_yld, v_back, v_backld>>

vars == <<maskVars, mlpVars, mafVars, permVars, chainVars, scanVars, vmapVars>>

\* ------------------------------------------------------- idle components

MaskIdle ==
    /\ m_in = Vec(<<>>)
    /\ m_out = Vec(<<>>)
    /\ m_eq = FALSE
    /\ m_res = NoResult

MlpIdle ==
    /\ in_ranks = Vec(<<>>)
    /\ hidden_ranks = Vec(<<>>)
    /\ out_ranks = Vec(<<>>)
    /\ depth = 0
    /\ masks = <<>>
    /\ mlp_pc = "idle"

MafIdle ==
    /\ maf = [kind |-> "MaskedAutoregressive", cond_dim |-> 0, key |-> 0, masks |-> <<>>]
    /\ x = <<>>
    /\ condition = None
    /\ y = <<>>
    /\ guess = <<>>
    /\ rank = 0
    /\ x_back = <<>>
    /\ pert = 0
    /\ x2 = <<>>
    /\ y2 = <<>>
    /\ maf_pc = "idle"

PermIdle ==
    /\ p_arg = <<>>
    /\ p_obj = NoResult
    /\ p_x = <<>>
    /\ p_y = NoResult
    /\ p_back = NoResult

ChainIdle ==
    /\ chain = [kind |-> "Chain", bijections |-> <<>>, cond_dim |-> 0]
    /\ c_x = <<>>
    /\ c_cond = None
    /\ c_y = NoResult
    /\ c_yld = NoResult
    /\ c_back = NoResult
    /\ c_backld = NoResult

ScanIdle ==
    /\ scan = ScanNew(StackedAffine(<<>>, <<>>, FALSE, 0))
    /\ s_x = <<>>
    /\ s_cond = None
    /\ s_y = NoResult
    /\ s_yld = NoResult
    /\ s_v = <<>>
    /\ s_back = NoResult
    /\ s_backld = NoResult

VmapIdle ==
    /\ vmap = VmapNew(StackedAffine(<<>>, <<>>, FALSE, 0), <<0>>)
    /\ v_x = <<>>
    /\ v_cond = None
    /\ v_y = NoResult
    /\ v_yld = NoResult
    /\ v_back = NoResult
    /\ v_backld = NoResult

\* ------------------------------------------- specification: rank_based_mask

Ranks == -1..MaxRank

\* The arrays a caller may pass: 1-D rank vectors, and 0-D and 2-D arrays.
RankArrays ==
    {Vec(s) : s \in SeqsUpTo(Ranks, MaxLen)}
        \cup {Scalar(r) : r \in Ranks}
        \cup {Mat(1, 1, <<r>>) : r \in Ranks}

MaskInit ==
    /\ m_in \in RankArrays
    /\ m_out \in RankArrays
    /\ m_eq \in BOOLEAN
    /\ m_res = NoResult

MaskCall ==
    /\ m_res = NoResult
    /\ m_res' = rank_based_mask(m_in, m_out, m_eq)
    /\ UNCHANGED <<m_in, m_out, m_eq>>
    /\ UNCHANGED <<mlpVars, mafVars, permVars, chainVars, scanVars, vmapVars>>

SpecMaskInit == MaskInit /\ MlpIdle /\ MafIdle /\ PermIdle /\ ChainIdle /\ ScanIdle /\ VmapIdle

SpecMaskNext == MaskCall

SpecMask == SpecMaskInit /\ [][SpecMaskNext]_vars

\* C7: rank_based_mask returns, for 1-D in_ranks (length N) and out_ranks
\* (length M), an M x N matrix of 0s and 1s whose entry (i, j) is 1 exactly
\* when out_ranks[i] > in_ranks[j] (eq false) or out_ranks[i] >= in_ranks[j]
\* (eq true); an argument that is not 1-D is rejected.
C7_MaskEntries ==
    m_res # NoResult =>
        IF Ndim(m_in) = 1 /\ Ndim(m_out) = 1
        THEN /\ m_res.raised = "none"
             /\ m_res.value.shape = <<Len(m_out.data), Len(m_in.data)>>
             /\ Len(m_res.value.data) = Len(m_out.data) * Len(m_in.data)
             /\ \A i \in 1..Len(m_out.data) : \A j \in 1..Len(m_in.data) :
                    /\ At(m_res.value, i, j) \in {0, 1}
                    /\ At(m_res.value, i, j) = 1 <=>
                           IF m_eq THEN m_out.data[i] >= m_in.data[j]
                                   ELSE m_out.data[i] > m_in.data[j]
        ELSE m_res.raised = "AssertionError"

\* An inclusive mask has been built whose first output has the rank of the
\* first input (entry 1) and whose second output has a lower rank than the
\* second input (entry 0).
C7_Witness ==
    /\ m_res.raised = "none"
    /\ m_eq
    /\ Len(m_in.data) = 2
    /\ Len(m_out.data) = 2
    /\ m_in.data[1] = m_out.data[1]
    /\ m_in.data[2] > m_out.data[2]
    /\ At(m_res.value, 1, 1) = 1
    /\ At(m_res.value, 2, 2) = 0

\* ----------------------------------------- specification: AutoregressiveMLP

MlpInit ==
    /\ in_ranks \in {Vec(s) : s \in [1..MlpWidth -> Ranks]}
    /\ hidden_ranks \in {Vec(s) : s \in [1..MlpWidth -> Ranks]}
    /\ out_ranks \in {Vec(s) : s \in [1..MlpOut -> Ranks]}
    /\ depth \in 0..MaxDepth
    /\ masks = <<>>
    /\ mlp_pc = "start"

\* if depth == 0: the strict mask in -> out; else: the inclusive mask in -> hidden.
MlpFirstMask ==
    /\ mlp_pc = "start"
    /\ IF depth = 0
       THEN /\ masks' = Append(masks, DirectMask(in_ranks, out_ranks).value)
            /\ mlp_pc' = "done"
       ELSE /\ masks' = Append(masks, InputMask(in_ranks, hidden_ranks).value)
            /\ mlp_pc' = "hidden"
    /\ UNCHANGED <<in_ranks, hidden_ranks, out_ranks, depth>>
    /\ UNCHANGED <<maskVars, mafVars, permVars, chainVars, scanVars, vmapVars>>

\* for _ in range(depth - 1): one inclusive mask hidden -> hidden.
MlpHiddenMask ==
    /\ mlp_pc = "hidden"
    /\ Len(masks) < depth
    /\ masks' = Append(masks, HiddenMask(hidden_ranks).value)
    /\ UNCHANGED <<in_ranks, hidden_ranks, out_ranks, depth, mlp_pc>>
    /\ UNCHANGED <<maskVars, mafVars, permVars, chainVars, scanVars, vmapVars>>

\* After the loop: the strict mask hidden -> out.
MlpFinalMask ==
    /\ mlp_pc = "hidden"
    /\ Len(masks) = depth
    /\ masks' = Append(masks, FinalMask(hidden_ranks, out_ranks).value)
    /\ mlp_pc' = "done"
    /\ UNCHANGED <<in_ranks, hidden_ranks, out_ranks, depth>>
    /\ UNCHANGED <<maskVars, mafVars, permVars, chainVars, scanVars, vmapVars>>

SpecMlpInit == MlpInit /\ MaskIdle /\ MafIdle /\ PermIdle /\ ChainIdle /\ ScanIdle /\ VmapIdle

SpecMlpNext == MlpFirstMask \/ MlpHiddenMask \/ MlpFinalMask

SpecMlp == SpecMlpInit /\ [][SpecMlpNext]_vars

\* C2: in a constructed AutoregressiveMLP of any depth (depth + 1 masked
\* layers), whenever the layer masks leave a connected path from input unit j
\* to output unit i, out_ranks[i] > in_ranks[j].
C2_PathsRespectRanks ==
    mlp_pc = "done" =>
        /\ Len(masks) = depth + 1
        /\ \A i \in 1..Len(out_ranks.data) : \A j \in 1..Len(in_ranks.data) :
               PathTo(masks, Len(masks), i, j) => out_ranks.data[i] > in_ranks.data[j]

\* A network with two hidden layers has been constructed in which some input
\* reaches some output through the hidden layers.
C2_Witness ==
    /\ mlp_pc = "done"
    /\ depth = 2
    /\ \E i \in 1..Len(out_ranks.data) : \E j \in 1..Len(in_ranks.data) :
           PathTo(masks, Len(masks), i, j)

\* -------------------------------------- specification: MaskedAutoregressive

\* The values of a coordinate of an input or a condition.
Vals == {-1, 0, 1}

\* The amounts a coordinate is perturbed by.
Deltas == {-1, 1, 2}

MafInit ==
    /\ \E key \in 1..NumKeys, cond_dim \in 0..1, nn_width \in Dim..(Dim + 1),
          nn_depth \in 0..MaxDepth :
           /\ maf = MafNew(key, Dim, cond_dim, nn_width, nn_depth)
           /\ condition \in IF cond_dim = 0 THEN {None}
                             ELSE {Some(c) : c \in [1..cond_dim -> {0, 1}]}
    /\ x \in [1..Dim -> Vals]
    /\ y = <<>>
    /\ guess = <<>>
    /\ rank = 0
    /\ x_back = <<>>
    /\ pert = 0
    /\ x2 = <<>>
    /\ y2 = <<>>
    /\ maf_pc = "start"

\* y = maf.transform(x, condition)
MafCallTransform ==
    /\ maf_pc = "start"
    /\ y' = MafTransform(maf, x, condition)
    /\ maf_pc' = "transformed"
    /\ UNCHANGED <<maf, x, condition, guess, rank, x_back, pert, x2, y2>>
    /\ UNCHANGED <<maskVars, mlpVars, permVars, chainVars, scanVars, vmapVars>>

\* maf.inverse(y, condition) is called: the scan starts from the carry (y, 0).
MafInverseStart ==
    /\ maf_pc = "transformed"
    /\ guess' = y
    /\ rank' = 0
    /\ maf_pc' = "inverse"
    /\ UNCHANGED <<maf, x, condition, y, x_back, pert, x2, y2>>
    /\ UNCHANGED <<maskVars, mlpVars, permVars, chainVars, scanVars, vmapVars>>

\* One iteration of the scan of length len(y):
\* (init[0], init[1]) -> (inverse_step(init[0], init[1], condition), init[1] + 1).
MafInverseStep ==
    /\ maf_pc = "inverse"
    /\ rank < Len(y)
    /\ guess' = inverse_step(maf, guess, rank, condition)
    /\ rank' = rank + 1
    /\ UNCHANGED <<maf, x, condition, y, x_back, pert, x2, y2, maf_pc>>
    /\ UNCHANGED <<maskVars, mlpVars, permVars, chainVars, scanVars, vmapVars>>

\* The scan is over: inverse returns the carry's vector.
MafInverseReturn ==
    /\ maf_pc = "inverse"
    /\ rank = Len(y)
    /\ x_back' = guess
    /\ maf_pc' = "inverted"
    /\ UNCHANGED <<maf, x, condition, y, guess, rank, pert, x2, y2>>
    /\ UNCHANGED <<maskVars, mlpVars, permVars, chainVars, scanVars, vmapVars>>

\* transform is called again on x with coordinate j alone perturbed.
MafPerturb ==
    /\ maf_pc = "transformed"
    /\ \E j \in 1..Len(x), d \in Deltas :
           /\ pert' = j
           /\ x2' = [x EXCEPT ![j] = x[j] + d]
           /\ y2' = MafTransform(maf, [x EXCEPT ![j] = x[j] + d], condition)
    /\ maf_pc' = "perturbed"
    /\ UNCHANGED <<maf, x, condition, y, guess, rank, x_back>>
    /\ UNCHANGED <<maskVars, mlpVars, permVars, chainVars, scanVars, vmapVars>>

SpecMafInit == MafInit /\ MaskIdle /\ MlpIdle /\ PermIdle /\ ChainIdle /\ ScanIdle /\ VmapIdle

SpecMafNext ==
    \/ MafCallTransform
    \/ MafInverseStart
    \/ MafInverseStep
    \/ MafInverseReturn
    \/ MafPerturb

SpecMaf == SpecMafInit /\ [][SpecMafNext]_vars

\* C1: inverse(transform(x, c), c) = x, where inverse starts from the guess
\* y = transform(x, c) and runs exactly dim iterations of inverse_step with the
\* counter 0, 1, ..., dim - 1.
C1_MafRoundTrip ==
    /\ maf_pc = "inverse" => rank \in 0..Dim
    /\ maf_pc = "inverted" =>
           /\ x_back = x
           /\ rank = Dim
           /\ Len(y) = Dim

\* An inverse has returned for an input that transform moved in every
\* coordinate, under a condition and through hidden layers.
C1_Witness ==
    /\ maf_pc = "inverted"
    /\ ~condition.none
    /\ Len(maf.masks) > 1
    /\ \A i \in 1..Dim : y[i] # x[i]
    /\ x_back = x

\* C9 as stated: perturbing x[j] alone leaves the output coordinates i <= j of
\* transform unchanged.
C9_PerturbLeavesUpToJ ==
    maf_pc = "perturbed" => \A i \in 1..pert : y2[i] = y[i]

\* C9, amended: perturbing x[j] alone leaves the output coordinates i < j of
\* transform unchanged; the coordinates i >= j may change.
C9_PerturbLeavesBelowJ ==
    maf_pc = "perturbed" =>
        /\ \A i \in 1..Len(x) : i # pert => x2[i] = x[i]
        /\ x2[pert] # x[pert]
        /\ \A i \in 1..(pert - 1) : y2[i] = y[i]

\* The second coordinate has been perturbed: the first output is unchanged,
\* the second and the third have changed.
C9_Witness ==
    /\ maf_pc = "perturbed"
    /\ pert = 2
    /\ y2[1] = y[1]
    /\ y2[2] # y[2]
    /\ y2[3] # y[3]

\* The guess vector of an inverse in progress after k iterations: coordinates
\* 0..k-1 hold x, coordinates k..dim-1 still hold y.
GuessAfter(k) ==
    /\ Len(guess) = Len(y)
    /\ \A i \in 1..Len(guess) : guess[i] = IF i <= k THEN x[i] ELSE y[i]

\* C11: in inverse applied to y = transform(x, c), after k iterations, for
\* every k in 0..dim, the guess g has g[i] = x[i] for all i < k and
\* g[i] = y[i] for all i >= k (coordinates from 0); iteration r changes at
\* most coordinate r of the guess and leaves every other coordinate untouched;
\* and the loop stops after exactly dim iterations, when inverse returns.
C11_GuessInvariant ==
    /\ [](maf_pc = "inverse" => (rank \in 0..Len(y) /\ GuessAfter(rank)))
    /\ [](maf_pc = "inverted" => (rank = Len(y) /\ Len(y) = Dim /\ x_back = guess))
    /\ [][maf_pc = "inverse" =>
              /\ rank' \in {rank, rank + 1}
              /\ maf_pc' = "inverted" => rank = Len(y)
              /\ \A i \in 1..Len(guess) : i # rank + 1 => guess'[i] = guess[i]]_vars

\* An inverse is part way through, under a condition and through hidden
\* layers: at least one iteration has run and at least one is left, the
\* committed coordinates hold x and the others hold y, and the two differ in
\* every coordinate.
C11_Witness ==
    /\ maf_pc = "inverse"
    /\ rank \in 1..(Len(y) - 1)
    /\ ~condition.none
    /\ Len(maf.masks) > 1
    /\ \A i \in 1..Len(y) : x[i] # y[i]
    /\ GuessAfter(rank)

\* --------------------------------------------------- specification: Permute

\* The arrays given to the constructor: entries in range and out of range.
PermArgs == SeqsUpTo(-1..PermLen, PermLen)

\* The lengths of the inputs given to a Permute over n entries: n, and the
\* lengths next to it.
InputLens(n) == {n, n + 1} \cup (IF n >= 2 THEN {n - 1} ELSE {})

PermInit ==
    /\ p_arg \in PermArgs
    /\ p_obj = NoResult
    /\ p_x = <<>>
    /\ p_y = NoResult
    /\ p_back = NoResult

\* Permute(p_arg)
PermConstruct ==
    /\ p_obj = NoResult
    /\ p_obj' = PermuteNew(p_arg)
    /\ UNCHANGED <<p_arg, p_x, p_y, p_back>>
    /\ UNCHANGED <<maskVars, mlpVars, mafVars, chainVars, scanVars, vmapVars>>

\* permute.transform(x), on the object the constructor returned.
PermCallTransform ==
    /\ p_obj.raised = "none"
    /\ p_y = NoResult
    /\ \E n \in InputLens(Len(p_arg)) : \E v \in [1..n -> Vals] :
           /\ p_x' = v
           /\ p_y' = Ok(PermuteTransform(p_obj.value, v))
    /\ UNCHANGED <<p_arg, p_obj, p_back>>
    /\ UNCHANGED <<maskVars, mlpVars, mafVars, chainVars, scanVars, vmapVars>>

\* permute.inverse(y), on what transform returned.
PermCallInverse ==
    /\ p_y.raised = "none"
    /\ p_back = NoResult
    /\ p_back' = Ok(PermuteInverse(p_obj.value, p_y.value))
    /\ UNCHANGED <<p_arg, p_obj, p_x, p_y>>
    /\ UNCHANGED <<maskVars, mlpVars, mafVars, chainVars, scanVars, vmapVars>>

SpecPermInit == PermInit /\ MaskIdle /\ MlpIdle /\ MafIdle /\ ChainIdle /\ ScanIdle /\ VmapIdle

SpecPermNext == PermConstruct \/ PermCallTransform \/ PermCallInverse

SpecPerm == SpecPermInit /\ [][SpecPermNext]_vars

\* Whether p holds every one of 0..n-1, n its length.
IsPermutation(p) == {p[k] : k \in DOMAIN p} = 0..(Len(p) - 1)

\* C6: constructing Permute with an integer array p of length n succeeds if
\* and only if p is a permutation of 0..n-1; otherwise it fails with an error
\* and produces no object; and for an accepted p, inverse(transform(x)) = x for
\* every x of length n.
C6_PermuteValidates ==
    /\ p_obj # NoResult =>
           /\ p_obj.raised = "none" <=> IsPermutation(p_arg)
           /\ p_obj.raised # "none" =>
                  /\ p_obj.raised = "ValueError"
                  /\ p_obj.value = <<>>
                  /\ p_y = NoResult
    /\ (p_back # NoResult /\ Len(p_x) = Len(p_arg)) =>
           /\ p_back.raised = "none"
           /\ p_back.value = p_x

\* A Permute that moves every entry has taken an input of three different
\* values there and back.
C6_Witness ==
    /\ p_back # NoResult
    /\ Len(p_arg) = 3
    /\ \A k \in 1..3 : p_arg[k] # k - 1
    /\ Len(p_x) = 3
    /\ Cardinality({p_x[k] : k \in 1..3}) = 3
    /\ p_y.value # p_x
    /\ p_back.value = p_x

\* C8 as stated, for Permute: a transform or an inverse whose input does not
\* have the shape of the bijection fails, and returns nothing.
C8_ArgcheckFirst ==
    /\ (p_y # NoResult /\ Len(p_x) # Len(p_arg)) => p_y.raised # "none"
    /\ (p_back # NoResult /\ Len(p_y.value) # Len(p_arg)) => p_back.raised # "none"

\* ----------------------------------------------------- specification: Chain

\* The rotation of 0..n-1 by r.
Rotation(n, r) == [k \in 1..n |-> (k - 1 + r) % n]

\* The exchange of the first two of 0..n-1.
Exchange(n) == [k \in 1..n |-> IF k = 1 THEN 1 ELSE IF k = 2 THEN 0 ELSE k - 1]

\* The bijections over Dim coordinates a Chain is built from: Flip, Permutes
\* and MaskedAutoregressive bijections of conditioning dimension cd.
ChainChildren(cd) ==
    {FlipNew}
        \cup {PermuteNew(Rotation(Dim, r)).value : r \in 1..(Dim - 1)}
        \cup {PermuteNew(Exchange(Dim)).value}
        \cup {MafNew(key, Dim, cd, Dim, 1) : key \in 1..NumKeys}

\* Inputs with distinct entries, with alternating entries and with negative
\* entries.
ChainInputs == {Arange(Dim), [k \in 1..Dim |-> k % 2], [k \in 1..Dim |-> 0 - k]}

ChainInit ==
    /\ \E cd \in 0..1 :
           /\ chain \in {ChainNew(bs) :
                           bs \in UNION {[1..n -> ChainChildren(cd)] : n \in 1..MaxChain}}
           /\ c_cond \in IF cd = 0 THEN {None} ELSE {Some(<<c>>) : c \in {0, 1}}
    /\ c_x \in ChainInputs
    /\ c_y = NoResult
    /\ c_yld = NoResult
    /\ c_back = NoResult
    /\ c_backld = NoResult

\* y = chain.transform(x, condition)
ChainCallTransform ==
    /\ c_y = NoResult
    /\ c_y' = Ok(ChainTransform(chain, c_x, c_cond))
    /\ UNCHANGED <<chain, c_x, c_cond, c_yld, c_back, c_backld>>
    /\ UNCHANGED <<maskVars, mlpVars, mafVars, permVars, scanVars, vmapVars>>

\* chain.transform_and_log_abs_det_jacobian(x, condition)
ChainCallTransformAndLogDet ==
    /\ c_yld = NoResult
    /\ c_yld' = Ok(ChainTransformAndLogDet(chain, c_x, c_cond))
    /\ UNCHANGED <<chain, c_x, c_cond, c_y, c_back, c_backld>>
    /\ UNCHANGED <<maskVars, mlpVars, mafVars, permVars, scanVars, vmapVars>>

\* chain.inverse(y, condition)
ChainCallInverse ==
    /\ c_y # NoResult
    /\ c_back = NoResult
    /\ c_back' = Ok(ChainInverse(chain, c_y.value, c_cond))
    /\ UNCHANGED <<chain, c_x, c_cond, c_y, c_yld, c_backld>>
    /\ UNCHANGED <<maskVars, mlpVars, mafVars, permVars, scanVars, vmapVars>>

\* chain.inverse_and_log_abs_det_jacobian(y, condition): Chain defines no
\* such method.
ChainCallInverseAndLogDet ==
    /\ c_yld # NoResult
    /\ c_backld = NoResult
    /\ "inverse_and_log_abs_det_jacobian" \notin Methods(chain.kind)
    /\ c_backld' = Raise("AttributeError")
    /\ UNCHANGED <<chain, c_x, c_cond, c_y, c_yld, c_back>>
    /\ UNCHANGED <<maskVars, mlpVars, mafVars, permVars, scanVars, vmapVars>>

SpecChainInit == ChainInit /\ MaskIdle /\ MlpIdle /\ MafIdle /\ PermIdle /\ ScanIdle /\ VmapIdle

SpecChainNext ==
    \/ ChainCallTransform
    \/ ChainCallTransformAndLogDet
    \/ ChainCallInverse
    \/ ChainCallInverseAndLogDet

SpecChain == SpecChainInit /\ [][SpecChainNext]_vars

\* Whether bijections a and b do not commute on the input v.
NotCommuting(a, b, v, cond) ==
    BijTransform(b, BijTransform(a, v, cond), cond)
        # BijTransform(a, BijTransform(b, v, cond), cond)

\* The transform of child n applied to that of child n - 1, ..., applied to
\* that of child 1 applied to v.
RECURSIVE Composite(_, _, _, _)
Composite(bs, n, v, cond) ==
    IF n = 0 THEN v
    ELSE BijTransform(bs[n], Composite(bs, n - 1, v, cond), cond)

\* C5: transform applies the children's transforms in list order and inverse
\* the children's inverses in reverse list order, so that
\* Chain.inverse(Chain.transform(x, c), c) = x, also when the children do not
\* commute.
C5_ChainRoundTrip ==
    /\ c_y # NoResult =>
           c_y.value = Composite(chain.bijections, Len(chain.bijections), c_x, c_cond)
    /\ c_back # NoResult => c_back.value = c_x

\* A Chain of a MaskedAutoregressive bijection and a Permute that do not
\* commute on the input has taken it there and back under a condition.
C5_Witness ==
    /\ c_back # NoResult
    /\ Len(chain.bijections) = 2
    /\ chain.bijections[1].kind = "MaskedAutoregressive"
    /\ chain.bijections[2].kind = "Permute"
    /\ ~c_cond.none
    /\ NotCommuting(chain.bijections[1], chain.bijections[2], c_x, c_cond)
    /\ c_back.value = c_x

\* C4 as stated, for Chain: if (y, ld_f) is what
\* transform_and_log_abs_det_jacobian(x, c) returns and (x2, ld_i) what
\* inverse_and_log_abs_det_jacobian(y, c) returns, x2 = x and ld_i = -ld_f.
C4_LogDetSymmetry ==
    c_backld # NoResult =>
        /\ c_backld.raised = "none"
        /\ c_backld.value.y = c_x
        /\ c_backld.value.ld = 0 - c_yld.value.ld

\* ------------------------------------------------------ specification: Scan

\* The stacked elementary bijections that Scan wraps: a location and a log
\* scale for each coordinate and each of the n entries of the leading axis.
ScanTemplates ==
    UNION {{StackedAffine(loc, ls, conditional, AffDim) :
                loc \in [1..n -> [1..AffDim -> {0, 1}]],
                ls \in [1..n -> [1..AffDim -> {0, 1}]],
                conditional \in BOOLEAN} : n \in 1..MaxScan}

ScanObjects == {ScanNew(b) : b \in ScanTemplates}

ScanInit ==
    /\ scan \in ScanObjects
    /\ s_x \in [1..AffDim -> {-1, 1}] \cup [1..(AffDim + 1) -> {0}]
    /\ s_cond \in IF scan.cond_shape.none THEN {None}
                   ELSE {None} \cup {Some(<<c>>) : c \in {0, 1}}
    /\ s_y = NoResult
    /\ s_yld = NoResult
    /\ s_v = <<>>
    /\ s_back = NoResult
    /\ s_backld = NoResult

\* scan.transform(x, condition)
ScanCallTransform ==
    /\ s_y = NoResult
    /\ s_y' = ScanTransform(scan, s_x, s_cond)
    /\ UNCHANGED <<scan, s_x, s_cond, s_yld, s_v, s_back, s_backld>>
    /\ UNCHANGED <<maskVars, mlpVars, mafVars, permVars, chainVars, vmapVars>>

\* scan.transform_and_log_abs_det_jacobian(x, condition)
ScanCallTransformAndLogDet ==
    /\ s_yld = NoResult
    /\ s_yld' = ScanTransformAndLogDet(scan, s_x, s_cond)
    /\ UNCHANGED <<scan, s_x, s_cond, s_y, s_v, s_back, s_backld>>
    /\ UNCHANGED <<maskVars, mlpVars, mafVars, permVars, chainVars, vmapVars>>

\* scan.inverse(v, condition) and scan.inverse_and_log_abs_det_jacobian(v,
\* condition), for v the input or what transform returned.
ScanCallInverse ==
    /\ s_back = NoResult
    /\ \E v \in {s_x} \cup (IF s_y.raised = "none" THEN {s_y.value} ELSE {}) :
           /\ s_v' = v
           /\ s_back' = ScanInverse(scan, v, s_cond)
           /\ s_backld' = ScanInverseAndLogDet(scan, v, s_cond)
    /\ UNCHANGED <<scan, s_x, s_cond, s_y, s_yld>>
    /\ UNCHANGED <<maskVars, mlpVars, mafVars, permVars, chainVars, vmapVars>>

SpecScanInit == ScanInit /\ MaskIdle /\ MlpIdle /\ MafIdle /\ PermIdle /\ ChainIdle /\ VmapIdle

SpecScanNext == ScanCallTransform \/ ScanCallTransformAndLogDet \/ ScanCallInverse

SpecScan == SpecScanInit /\ [][SpecScanNext]_vars

\* Chain([b_0, ..., b_{T-1}]), b_t the static part of the Scan recombined with
\* entry t of its parameters.
ChainOfSlices(sc) ==
    ChainNew([t \in 1..ScanLength(sc) |-> Combine(sc.static, ParamSlice(sc.params, t))])

\* C3: Scan(bijection) gives the results of Chain([b_0, ..., b_{T-1}]):
\* transform those of b_0, then b_1, ..., then b_{T-1}; inverse those of the
\* inverses of b_{T-1} down to b_0; and the log-det of
\* transform_and_log_abs_det_jacobian is the sum of the per-step log-dets.
C3_ScanIsChain ==
    /\ s_y.raised = "none" =>
           s_y.value = ChainTransform(ChainOfSlices(scan), s_x, s_cond)
    /\ s_yld.raised = "none" =>
           s_yld.value = ChainTransformAndLogDet(ChainOfSlices(scan), s_x, s_cond)
    /\ s_back.raised = "none" =>
           s_back.value = ChainInverse(ChainOfSlices(scan), s_v, s_cond)

\* A Scan over two steps that do not commute on the input has transformed it
\* under a condition and inverted the result.
C3_Witness ==
    /\ ScanLength(scan) = 2
    /\ ~s_cond.none
    /\ s_y.raised = "none"
    /\ s_yld.raised = "none"
    /\ s_back.raised = "none"
    /\ s_v = s_y.value
    /\ s_yld.value.ld > 0
    /\ NotCommuting(ChainOfSlices(scan).bijections[1],
                    ChainOfSlices(scan).bijections[2], s_x, s_cond)
    /\ s_back.value = s_x

\* For a Scan, which defines both log-det variants: the inverse variant at
\* what the forward variant returned gives the input back, and the negated
\* log-det.
ScanLogDetSymmetry ==
    (s_yld.raised = "none" /\ s_backld.raised = "none" /\ s_v = s_yld.value.y) =>
        /\ s_backld.value.y = s_x
        /\ s_backld.value.ld = 0 - s_yld.value.ld

\* A Scan runs the argument check first: an input of another shape, or a
\* missing condition, raises and nothing is returned.
ScanArgcheckFirst ==
    /\ (s_y # NoResult /\ (Len(s_x) # AffDim \/ (~scan.cond_shape.none /\ s_cond.none)))
           => (s_y.raised = "ValueError" /\ s_y.value = <<>>)
    /\ (s_back # NoResult /\ (Len(s_v) # AffDim \/ (~scan.cond_shape.none /\ s_cond.none)))
           => (s_back.raised = "ValueError" /\ s_back.value = <<>>)

\* ------------------------------------------------------ specification: Vmap

\* The shapes that Vmap adds: one or two leading axes.
BatchShapes ==
    {<<b>> : b \in 1..MaxBatch} \cup {<<b, c>> : b \in 1..MaxBatch, c \in 1..MaxBatch}

\* Entry i of the slice numbered code of an array drawn with a seed: locations
\* and log scales in {0, 1}, inputs in {-1, 0, 1}.
Pattern(what, seed, code, i) ==
    CASE what = "loc" -> (seed + code + i) % 2
      [] what = "log_scale" -> (seed + (code \div 2) + i) % 2
      [] what = "x" -> ((seed + code + 2 * i) % 3) - 1

\* An array of shape `shape` + (d,), as nested sequences, from axis k on.
RECURSIVE GenArray(_, _, _, _, _, _)
GenArray(what, seed, shape, k, code, d) ==
    IF k > Len(shape)
    THEN [i \in 1..d |-> Pattern(what, seed, code, i)]
    ELSE [j \in 1..shape[k] |-> GenArray(what, seed, shape, k + 1, 3 * code + j, d)]

VmapInit ==
    /\ \E shape \in BatchShapes, key \in 1..NumKeys, conditional \in BOOLEAN :
           /\ vmap = VmapNew(StackedAffine(GenArray("loc", key, shape, 1, 0, AffDim),
                                           GenArray("log_scale", key, shape, 1, 0, AffDim),
                                           conditional, AffDim),
                             shape)
           /\ v_x \in {GenArray("x", seed, shape, 1, 0, AffDim) : seed \in 0..2}
                       \cup {GenArray("x", 0, shape, 1, 0, AffDim + 1)}
           /\ v_cond \in IF conditional THEN {None} \cup {Some(<<c>>) : c \in {0, 1}}
                          ELSE {None}
    /\ v_y = NoResult
    /\ v_yld = NoResult
    /\ v_back = NoResult
    /\ v_backld = NoResult

\* vmap.transform(x, condition)
VmapCallTransform ==
    /\ v_y = NoResult
    /\ v_y' = VmapCall(vmap, "transform", v_x, v_cond)
    /\ UNCHANGED <<vmap, v_x, v_cond, v_yld, v_back, v_backld>>
    /\ UNCHANGED <<maskVars, mlpVars, mafVars, permVars, chainVars, scanVars>>

\* vmap.transform_and_log_abs_det_jacobian(x, condition)
VmapCallTransformAndLogDet ==
    /\ v_yld = NoResult
    /\ v_yld' = VmapCallLogDet(vmap, "transform_and_log_abs_det_jacobian", v_x, v_cond)
    /\ UNCHANGED <<vmap, v_x, v_cond, v_y, v_back, v_backld>>
    /\ UNCHANGED <<maskVars, mlpVars, mafVars, permVars, chainVars, scanVars>>

\* vmap.inverse(y, condition), y what transform returned.
VmapCallInverse ==
    /\ v_y.raised = "none"
    /\ v_back = NoResult
    /\ v_back' = VmapCall(vmap, "inverse", v_y.value, v_cond)
    /\ UNCHANGED <<vmap, v_x, v_cond, v_y, v_yld, v_backld>>
    /\ UNCHANGED <<maskVars, mlpVars, mafVars, permVars, chainVars, scanVars>>

\* vmap.inverse_and_log_abs_det_jacobian(y, condition), y what
\* transform_and_log_abs_det_jacobian returned.
VmapCallInverseAndLogDet ==
    /\ v_yld.raised = "none"
    /\ v_backld = NoResult
    /\ v_backld' = VmapCallLogDet(vmap, "inverse_and_log_abs_det_jacobian",
                                  v_yld.value.y, v_cond)
    /\ UNCHANGED <<vmap, v_x, v_cond, v_y, v_yld, v_back>>
    /\ UNCHANGED <<maskVars, mlpVars, mafVars, permVars, chainVars, scanVars>>

SpecVmapInit == VmapInit /\ MaskIdle /\ MlpIdle /\ MafIdle /\ PermIdle /\ ChainIdle /\ ScanIdle

SpecVmapNext ==
    \/ VmapCallTransform
    \/ VmapCallTransformAndLogDet
    \/ VmapCallInverse
    \/ VmapCallInverseAndLogDet

SpecVmap == SpecVmapInit /\ [][SpecVmapNext]_vars

\* The axes the Vmap added.
BatchShape(vm) == SubSeq(vm.shape, 1, vm.ndim_to_add)

\* The indices of an array of the given shape.
Indices(shape) ==
    {idx \in [1..Len(shape) -> 1..MaxBatch] : \A k \in 1..Len(shape) : idx[k] <= shape[k]}

\* The entry of the nested array a at the index idx.
RECURSIVE NestedAt(_, _)
NestedAt(a, idx) == IF idx = <<>> THEN a ELSE NestedAt(a[Head(idx)], Tail(idx))

\* The wrapped bijection with the parameters at the index idx.
SliceAt(vm, idx) ==
    Combine(Partition(vm.bijection).static,
            [loc |-> NestedAt(vm.bijection.loc, idx),
             log_scale |-> NestedAt(vm.bijection.log_scale, idx)])

\* The sum of f over the set S of its arguments.
RECURSIVE SumOver(_, _)
SumOver(f, S) ==
    IF S = {} THEN 0
    ELSE LET a == CHOOSE b \in S : TRUE IN f[a] + SumOver(f, S \ {a})

\* C10: transform and inverse of Vmap(bijection, shape) return, at every index
\* of the added axes, what the slice of the wrapped bijection at that index
\* returns for the slice of the input at that index, under the same
\* condition; the log-det of both log-det variants is the sum, over the
\* indices of the added axes, of the log-dets of the slices.
C10_VmapPerSlice ==
    LET I == Indices(BatchShape(vmap)) IN
    /\ v_y.raised = "none" =>
           \A idx \in I :
               NestedAt(v_y.value, idx)
                   = BijTransform(SliceAt(vmap, idx), NestedAt(v_x, idx), v_cond)
    /\ v_back.raised = "none" =>
           \A idx \in I :
               NestedAt(v_back.value, idx)
                   = BijInverse(SliceAt(vmap, idx), NestedAt(v_y.value, idx), v_cond)
    /\ v_yld.raised = "none" =>
           /\ \A idx \in I :
                  NestedAt(v_yld.value.y, idx)
                      = BijTransform(SliceAt(vmap, idx), NestedAt(v_x, idx), v_cond)
           /\ v_yld.value.ld =
                  SumOver([idx \in I |->
                              BijTransformAndLogDet(SliceAt(vmap, idx),
                                                    NestedAt(v_x, idx), v_cond).ld], I)
    /\ v_backld.raised = "none" =>
           /\ \A idx \in I :
                  NestedAt(v_backld.value.y, idx)
                      = BijInverse(SliceAt(vmap, idx), NestedAt(v_yld.value.y, idx), v_cond)
           /\ v_backld.value.ld =
                  SumOver([idx \in I |->
                              BijInverseAndLogDet(SliceAt(vmap, idx),
                                                  NestedAt(v_yld.value.y, idx),
                                                  v_cond).ld], I)

\* A Vmap over two added axes of length two, whose slices have different
\* parameters and log-dets, has run both log-det variants under a condition.
C10_Witness ==
    /\ BatchShape(vmap) = <<2, 2>>
    /\ ~v_cond.none
    /\ v_yld.raised = "none"
    /\ v_backld.raised = "none"
    /\ SliceAt(vmap, <<1, 1>>).loc # SliceAt(vmap, <<1, 2>>).loc
    /\ AffineLogDet(SliceAt(vmap, <<1, 1>>)) # AffineLogDet(SliceAt(vmap, <<2, 1>>))
    /\ v_yld.value.ld \in 1..3
    /\ v_backld.value.ld = 0 - v_yld.value.ld
    /\ v_backld.value.y = v_x

\* For a Vmap, which defines both log-det variants: the inverse variant at
\* what the forward variant returned gives the input back, and the negated
\* log-det; and inverse undoes transform.
VmapLogDetSymmetry ==
    /\ v_backld.raised = "none" =>
           /\ v_backld.value.y = v_x
           /\ v_backld.value.ld = 0 - v_yld.value.ld
    /\ v_back.raised = "none" => v_back.value = v_x

\* A Vmap runs the argument check first: an input of another shape, or a
\* missing condition, raises and nothing is returned.
VmapArgcheckFirst ==
    (NestedShape(v_x, Len(vmap.shape)) # vmap.shape \/ (~vmap.cond_shape.none /\ v_cond.none))
        => /\ v_y # NoResult => (v_y.raised = "ValueError" /\ v_y.value = <<>>)
           /\ v_yld # NoResult => (v_yld.raised = "ValueError" /\ v_yld.value = <<>>)

====
